---- MODULE Spec2Model ----
(***************************************************************************)
(* Agent driver of neutron-lbaas (drivers/common/agent_driver_base.py):    *)
(* the plugin-side managers that forward create/update/delete of the five  *)
(* LBaaS resource kinds to the agent hosting the load balancer, the driver *)
(* set-up on the shared plugin object, and the periodic agent monitoring   *)
(* (_check_agents_states / _reschedule_instances).                         *)
(*                                                                         *)
(* The process is an eventlet process: a greenthread runs until it blocks  *)
(* on the database or on the message bus.  The monitoring tick is therefore*)
(* modelled in steps that end where it blocks (the checks of the roster up *)
(* to an agent that has to be rescheduled, one load balancer of a          *)
(* rescheduling batch), between which the API handlers, the environment    *)
(* (agents registering, going down, coming back) and further driver        *)
(* initialisations interleave.  An API handler is one step.                *)
(***************************************************************************)
EXTENDS Integers, Sequences, FiniteSets

\* ------------------------------------------------------------------ bounds
NumAgents == 2
NumLbs    == 2
MaxInits  == 2

\* cfg lbaas_agent_monitoring_interval: its default; 0 means no monitoring
DefaultMonitoringInterval == 10

AgentIds == 1..NumAgents
LbIds    == 1..NumLbs
NoAgent  == 0

VARIABLES
    agent_state,         \* Registry: agent id -> "absent" | "up" | "down"
    loadbalancers,       \* Registry: ids of the load balancer records
    binding,             \* Registry: load balancer id -> hosting agent id, or NoAgent
    plugin_attrs,        \* attribute names set on the plugin object
    db_attrs,            \* attribute names set on plugin.db
    active_agents,       \* plugin.db.active_agents
    drivers,             \* AgentDriverBase instances constructed on the plugin
    loops_started,       \* FixedIntervalLoopingCall objects started
    loops_running,       \* ... of which still running
    consumers,           \* create_consumer calls made on the plugin's connection
    monitoring_interval, \* cfg.CONF.lbaas_agent_monitoring_interval
    pc,                  \* the monitoring tick: "idle" | "resched" | "failed"
    todo,                \* agents of the fetched roster still to be checked by the tick
    failed_agent,        \* the agent whose instances the tick is rescheduling
    queue,               \* load balancers of the batch still to be processed
    rlog,                \* calls of the latest iteration of _reschedule_instances
    polled,              \* flips at every call of _check_agents_states
    seen_active,         \* agents the tick in progress has computed active so far
    resched_count,       \* agent id -> _reschedule_instances calls since last added
    repolled,            \* agents a later poll computed inactive, out of active_agents
    declined,            \* load balancers whose last reschedule found no agent
    last,                \* the call the API/set-up path has just completed, or Nil
    deleting             \* the LoadBalancerManager.delete in progress, step by step

vars == <<agent_state, loadbalancers, binding, plugin_attrs, db_attrs,
          active_agents, drivers, loops_started, loops_running, consumers,
          monitoring_interval, pc, todo, failed_agent, queue, rlog, polled,
          seen_active, resched_count, repolled, declined, last, deleting>>

registry == <<agent_state, loadbalancers, binding>>
setup    == <<plugin_attrs, db_attrs, drivers, loops_started, consumers,
              monitoring_interval>>
tick     == <<pc, todo, failed_agent, queue, rlog, polled, seen_active>>
history  == <<resched_count, repolled, declined>>

\* --------------------------------------------------------------- values
Host(a) == <<"host", a>>
NoHost  == Host(NoAgent)

\* device_driver of a plugin driver class; "" is the base class's None
DeviceDrivers == {"", "haproxy_ns"}
DeviceDriver  == "haproxy_ns"

Kinds    == {"loadbalancer", "listener", "pool", "member", "healthmonitor"}
SubKinds == Kinds \ {"loadbalancer"}
Ops      == {"create", "update", "delete"}

\* LoadBalancerAgentApi: the method (and cast verb) of an operation on a kind
Verb(op, kind) ==
    [create |-> [loadbalancer  |-> "create_loadbalancer",
                 listener      |-> "create_listener",
                 pool          |-> "create_pool",
                 member        |-> "create_member",
                 healthmonitor |-> "create_healthmonitor"],
     update |-> [loadbalancer  |-> "update_loadbalancer",
                 listener      |-> "update_listener",
                 pool          |-> "update_pool",
                 member        |-> "update_member",
                 healthmonitor |-> "update_healthmonitor"],
     delete |-> [loadbalancer  |-> "delete_loadbalancer",
                 listener      |-> "delete_listener",
                 pool          |-> "delete_pool",
                 member        |-> "delete_member",
                 healthmonitor |-> "delete_healthmonitor"]][op][kind]

\* plugin.db method that deletes a record of a kind
DbDelete(kind) ==
    [loadbalancer  |-> "delete_loadbalancer",
     listener      |-> "delete_listener",
     pool          |-> "delete_pool",
     member        |-> "delete_pool_member",
     healthmonitor |-> "delete_healthmonitor"][kind]

\* One call made by a handler, in the order made.  call is the callee:
\* "base" (the super() call, verb = the base method), "schedule",
\* "get_loadbalancer_agent", "db" (verb = the plugin.db method) or "cast"
\* (verb = the agent RPC method, host = the server it is prepared for).
Step(call, verb, host, driver_name) ==
    [call |-> call, verb |-> verb, host |-> host, driver_name |-> driver_name]

Nil == [kind |-> "none", op |-> "none", lb |-> 0, steps |-> <<>>, outcome |-> "none"]

\* No LoadBalancerManager.delete is in progress
NoDelete == [pc |-> "none", lb |-> 0, agent |-> NoAgent, owner |-> NoAgent]

\* `last` records a completed call where the API path is under observation
Observe(observed, call) == IF observed THEN call ELSE Nil

\* One entry of rlog: the scheduler call with the host of what it returned
\* (NoHost for None), a cast, or the exception that ended the batch.
Entry(call, w, host) == [call |-> call, lb |-> w, host |-> host]

\* ------------------------------------------------- Registry and policy
\* plugin.db.get_agent_hosting_loadbalancer
Hosting(w) == IF w \in loadbalancers THEN binding[w] ELSE NoAgent

\* plugin.db.list_loadbalancers_on_lbaas_agent
LoadbalancersOn(a) == {w \in loadbalancers : binding[w] = a}

\* plugin.db.get_lbaas_agents: the unfiltered roster
Roster == {a \in AgentIds : agent_state[a] # "absent"}

\* agents the Registry computes active
Eligible == {a \in AgentIds : agent_state[a] = "up"}

\* Placement Policy, schedule: an active agent, None when there is none.
\* The binding is recorded by the policy when it returns an agent.
ScheduleChoices == IF Eligible = {} THEN {NoAgent} ELSE Eligible

\* Placement Policy, reschedule: re-reads the current binding; another
\* active agent, or None (no other active agent, a load balancer that is
\* pinned to its host, or one that is gone).
RescheduleChoices(w) ==
    {NoAgent} \cup (IF Hosting(w) # NoAgent THEN Eligible \ {Hosting(w)} ELSE {})

\* ------------------------------------------------------------------ Init
Init ==
    /\ agent_state = [a \in AgentIds |-> "absent"]
    /\ loadbalancers = {}
    /\ binding = [w \in LbIds |-> NoAgent]
    /\ plugin_attrs = {}
    /\ db_attrs = {}
    /\ active_agents = {}
    /\ drivers = 0
    /\ loops_started = 0
    /\ loops_running = 0
    /\ consumers = 0
    /\ monitoring_interval \in {0, DefaultMonitoringInterval}
    /\ pc = "idle"
    /\ todo = {}
    /\ failed_agent = NoAgent
    /\ queue = {}
    /\ rlog = <<>>
    /\ polled = FALSE
    /\ seen_active = {}
    /\ resched_count = [a \in AgentIds |-> 0]
    /\ repolled = {}
    /\ declined = {}
    /\ last = Nil
    /\ deleting = NoDelete

\* ----------------------------------------------------------- environment
\* An agent registers itself (agents report in id order), stops
\* heartbeating, or heartbeats again.
AgentRegisters(a) ==
    /\ last = Nil
    /\ agent_state[a] = "absent"
    /\ \A b \in AgentIds : b < a => agent_state[b] # "absent"
    /\ agent_state' = [agent_state EXCEPT ![a] = "up"]
    /\ UNCHANGED <<loadbalancers, binding, setup, loops_running, active_agents,
                   tick, history, last>>
    /\ UNCHANGED deleting

AgentGoesDown(a) ==
    /\ last = Nil
    /\ agent_state[a] = "up"
    /\ agent_state' = [agent_state EXCEPT ![a] = "down"]
    /\ UNCHANGED <<loadbalancers, binding, setup, loops_running, active_agents,
                   tick, history, last>>
    /\ UNCHANGED deleting

AgentComesBack(a) ==
    /\ last = Nil
    /\ agent_state[a] = "down"
    /\ agent_state' = [agent_state EXCEPT ![a] = "up"]
    /\ UNCHANGED <<loadbalancers, binding, setup, loops_running, active_agents,
                   tick, history, last>>
    /\ UNCHANGED deleting

\* ----------------------------------------------------- driver set-up
\* _set_callbacks_on_plugin: the guard reads plugin.agent_callbacks, the
\* body sets plugin.agent_endpoints and plugin.conn.
CallbacksAlreadySet(pattrs) == "agent_callbacks" \in pattrs

set_callbacks_on_plugin(pattrs) ==
    IF CallbacksAlreadySet(pattrs)
    THEN [attrs |-> pattrs, created |-> 0]
    ELSE [attrs |-> pattrs \cup {"agent_endpoints", "conn"}, created |-> 1]

\* A set-up that starts the looping call whatever the interval
setup_agent_monitoring_on_plugin_AlwaysStarts(pattrs, dattrs, act, interval) ==
    IF "agent_monitoring" \in pattrs
    THEN [dattrs |-> dattrs, active |-> act, started |-> 0]
    ELSE [dattrs  |-> dattrs \cup {"active_agents", "agent_monitoring"},
          active  |-> {},
          started |-> 1]

\* _setup_agent_monitoring_on_plugin: the guard reads
\* plugin.agent_monitoring, the body sets plugin.db.active_agents and,
\* with a non-zero interval, plugin.db.agent_monitoring.
MonitoringAlreadySet(pattrs) == "agent_monitoring" \in pattrs

setup_agent_monitoring_on_plugin(pattrs, dattrs, act, interval) ==
    IF MonitoringAlreadySet(pattrs)
    THEN [dattrs |-> dattrs, active |-> act, started |-> 0]
    ELSE [dattrs  |-> dattrs \cup {"active_agents"}
                       \cup (IF interval # 0 THEN {"agent_monitoring"} ELSE {}),
          active  |-> {},
          started |-> IF interval # 0 THEN 1 ELSE 0]

\* An __init__ that checks device_driver after the set-up, not before
DriverInit_RaisesLate(dd, observed) ==
    /\ last = Nil
    /\ drivers < MaxInits
    /\ LET cb  == set_callbacks_on_plugin(plugin_attrs)
           mon == setup_agent_monitoring_on_plugin(
                      cb.attrs, db_attrs \cup {"agent_notifiers"},
                      active_agents, monitoring_interval)
       IN /\ plugin_attrs' = cb.attrs
          /\ consumers' = consumers + cb.created
          /\ db_attrs' = mon.dattrs
          /\ active_agents' = mon.active
          /\ loops_started' = loops_started + mon.started
          /\ loops_running' = loops_running + mon.started
          /\ drivers' = IF dd = "" THEN drivers ELSE drivers + 1
          /\ last' = Observe(observed,
                             [Nil EXCEPT !.kind = "driver", !.op = "init",
                                         !.outcome = IF dd = ""
                                                     THEN "DriverNotSpecified"
                                                     ELSE "ok"])
          /\ UNCHANGED <<registry, monitoring_interval, tick, history>>
    /\ UNCHANGED deleting

\* AgentDriverBase.__init__ on the shared plugin.
DriverInit(dd, observed) ==
    /\ last = Nil
    /\ drivers < MaxInits
    /\ IF dd = ""
       THEN /\ last' = Observe(observed,
                               [Nil EXCEPT !.kind = "driver", !.op = "init",
                                           !.outcome = "DriverNotSpecified"])
            /\ UNCHANGED <<registry, setup, loops_running, active_agents, tick,
                           history>>
       ELSE LET cb  == set_callbacks_on_plugin(plugin_attrs)
                mon == setup_agent_monitoring_on_plugin(
                           cb.attrs, db_attrs \cup {"agent_notifiers"},
                           active_agents, monitoring_interval)
            IN /\ plugin_attrs' = cb.attrs
               /\ consumers' = consumers + cb.created
               /\ db_attrs' = mon.dattrs
               /\ active_agents' = mon.active
               /\ loops_started' = loops_started + mon.started
               /\ loops_running' = loops_running + mon.started
               /\ drivers' = drivers + 1
               /\ last' = Observe(observed,
                                  [Nil EXCEPT !.kind = "driver", !.op = "init",
                                              !.outcome = "ok"])
               /\ UNCHANGED <<registry, monitoring_interval, tick,
                              history>>
    /\ UNCHANGED deleting


\* ------------------------------------------------- agent monitoring tick
\* A check that does not look at active_agents before rescheduling
Transition_NoMembership(active, a, act) ==
    IF ~active THEN "down"
    ELSE IF a \notin act THEN "up"
    ELSE "same"

\* A check that reschedules an agent that has come back as well
Transition_AddedIsRescheduled(active, a, act) ==
    IF ~active /\ a \in act THEN "down"
    ELSE IF active /\ a \notin act THEN "down"
    ELSE "same"

\* The branch of _check_agents_states taken for an agent: "down" for an
\* agent computed inactive that is in active_agents, "up" for one computed
\* active that is not, "same" otherwise.
Transition(active, a, act) ==
    IF ~active /\ a \in act THEN "down"
    ELSE IF active /\ a \notin act THEN "up"
    ELSE "same"

\* plugin.db.is_eligible_agent(True, agent)
IsEligibleAgent(a) == agent_state[a] = "up"

\* The loop over the roster runs without blocking from one agent to the
\* next, until an agent takes the "down" branch and _reschedule_instances
\* blocks on the database.  Of the agents S still to be checked, taken in
\* the order of their ids: the first that takes the "down" branch, or
\* NoAgent.
FirstDown(S, act) ==
    LET D == {a \in S : Transition(IsEligibleAgent(a), a, act) = "down"}
    IN IF D = {} THEN NoAgent ELSE CHOOSE d \in D : \A e \in D : d <= e

\* The agents of S checked before `stop` (all of S when stop is NoAgent)
Before(S, stop) == IF stop = NoAgent THEN S ELSE {a \in S : a < stop}

\* ... and those of them that take the "up" branch
Added(S, stop, act) ==
    {a \in Before(S, stop) : Transition(IsEligibleAgent(a), a, act) = "up"}

\* Casts in the other order: the old host is told first
RescheduleCasts_RemovedFirst(w, new_agent, agent) ==
    IF new_agent # NoAgent
    THEN << Entry("instance_removed", w, Host(agent)),
            Entry("instance_added", w, Host(new_agent)) >>
    ELSE << >>

\* Casts that tell the old host whatever reschedule returned
RescheduleCasts_AlwaysRemoved(w, new_agent, agent) ==
    IF new_agent # NoAgent
    THEN << Entry("instance_added", w, Host(new_agent)),
            Entry("instance_removed", w, Host(agent)) >>
    ELSE << Entry("instance_removed", w, Host(agent)) >>

\* The casts of one iteration of the loop of _reschedule_instances, in the
\* order made: w the load balancer, new_agent what reschedule returned,
\* agent the agent being emptied.
RescheduleCasts(w, new_agent, agent) ==
    IF new_agent # NoAgent
    THEN << Entry("instance_added", w, Host(new_agent)),
            Entry("instance_removed", w, Host(agent)) >>
    ELSE << >>

\* The loop of _check_agents_states over the agents S.  fail names the call
\* that raises: "is_eligible_agent" (for agent x), "list_loadbalancers"
\* (the first call of _reschedule_instances) or "none".
Scan(S, fail, x) ==
    LET d    == FirstDown(S, active_agents)
        stop == IF fail = "is_eligible_agent" THEN x ELSE d
        up   == Added(S, stop, active_agents)
    IN /\ fail = "is_eligible_agent" => x \in S /\ (d = NoAgent \/ x <= d)
       /\ fail = "list_loadbalancers" => d # NoAgent
       /\ fail # "is_eligible_agent" => x = NoAgent
       /\ resched_count' =
             [a \in AgentIds |->
                 IF a \in up THEN 0
                 ELSE IF a = stop /\ a = d /\ fail # "is_eligible_agent"
                      THEN resched_count[a] + 1
                      ELSE resched_count[a]]
       /\ repolled' = (repolled \ up)
                        \cup {a \in Before(S, stop) \ active_agents : ~IsEligibleAgent(a)}
       /\ declined' = declined \ UNION {LoadbalancersOn(a) : a \in up}
       /\ rlog' = <<>>
       /\ seen_active' = IF fail = "none" /\ d # NoAgent
                         THEN seen_active \cup {a \in Before(S, d) : IsEligibleAgent(a)}
                         ELSE {}
       /\ IF fail = "is_eligible_agent"
          THEN /\ active_agents' = active_agents \cup up
               /\ pc' = "failed"
               /\ todo' = {}
               /\ failed_agent' = NoAgent
               /\ queue' = {}
          ELSE IF d # NoAgent
          THEN /\ active_agents' = (active_agents \cup up) \ {d}
               /\ failed_agent' = d
               /\ IF fail = "list_loadbalancers"
                  THEN pc' = "failed" /\ todo' = {} /\ queue' = {}
                  ELSE /\ pc' = "resched"
                       /\ todo' = {a \in S : a > d}
                       /\ queue' = LoadbalancersOn(d)
          ELSE /\ active_agents' = active_agents \cup up
               /\ pc' = "idle"
               /\ todo' = {}
               /\ failed_agent' = NoAgent
               /\ queue' = {}

ScanFails == {"none", "is_eligible_agent", "list_loadbalancers"}

\* The looping call calls _check_agents_states: it fetches the roster (the
\* fetch may raise) and checks the agents up to the first that takes the
\* "down" branch; with none, it returns and the looping call sleeps.
TickStart(raises, fail, x) ==
    /\ last = Nil
    /\ pc = "idle"
    /\ loops_running > 0
    /\ polled' = ~polled
    /\ IF raises
       THEN /\ fail = "none" /\ x = NoAgent
            /\ pc' = "failed"
            /\ UNCHANGED <<active_agents, todo, failed_agent, queue, rlog,
                           seen_active, history>>
       ELSE Scan(Roster, fail, x)
    /\ UNCHANGED <<registry, setup, loops_running, last>>
    /\ UNCHANGED deleting

\* One iteration of the loop of _reschedule_instances.  new_agent is what
\* the policy returns; fail is 0 (nothing raises), 1 (reschedule raises) or
\* 1 + i (the i-th cast of the iteration raises).  rlog holds the calls of
\* the iteration: the reschedule call with what it returned, the casts that
\* were sent and, last, the exception if one was raised.
RescheduleStep(w, new_agent, fail) ==
    /\ last = Nil
    /\ pc = "resched"
    /\ w \in queue
    /\ new_agent \in RescheduleChoices(w)
    /\ LET casts == RescheduleCasts(w, new_agent, failed_agent)
           sent  == IF fail = 0 THEN casts ELSE SubSeq(casts, 1, fail - 2)
       IN /\ fail - 1 <= Len(casts)
          /\ fail = 1 => new_agent = NoAgent
          /\ queue' = queue \ {w}
          /\ IF fail = 1
             THEN /\ rlog' = << Entry("raise", w, NoHost) >>
                  /\ UNCHANGED <<binding, declined>>
             ELSE /\ binding' = IF new_agent # NoAgent
                                THEN [binding EXCEPT ![w] = new_agent]
                                ELSE binding
                  /\ declined' = IF new_agent # NoAgent THEN declined \ {w}
                                 ELSE IF Hosting(w) = failed_agent
                                      THEN declined \cup {w}
                                      ELSE declined
                  /\ rlog' = << Entry("reschedule", w, Host(new_agent)) >>
                             \o sent
                             \o (IF fail = 0 THEN << >>
                                 ELSE << Entry("raise", w, NoHost) >>)
          /\ pc' = IF fail = 0 THEN "resched" ELSE "failed"
          /\ todo' = IF fail = 0 THEN todo ELSE {}
    /\ UNCHANGED <<agent_state, loadbalancers, setup, loops_running,
                   active_agents, failed_agent, polled, seen_active,
                   resched_count, repolled, last>>
    /\ UNCHANGED deleting

\* _reschedule_instances returns and the loop over the roster goes on.
RescheduleDone(fail, x) ==
    /\ last = Nil
    /\ pc = "resched"
    /\ queue = {}
    /\ Scan(todo, fail, x)
    /\ UNCHANGED <<registry, setup, loops_running, polled, last>>
    /\ UNCHANGED deleting

\* An exception leaves _check_agents_states, which catches nothing, and
\* reaches FixedIntervalLoopingCall, which logs it and ends its loop.
LoopingCallAfterException(running) == running - 1

TickRaises ==
    /\ last = Nil
    /\ pc = "failed"
    /\ pc' = "idle"
    /\ loops_running' = LoopingCallAfterException(loops_running)
    /\ todo' = {}
    /\ failed_agent' = NoAgent
    /\ queue' = {}
    /\ rlog' = <<>>
    /\ seen_active' = {}
    /\ UNCHANGED <<registry, setup, active_agents, polled, history, last>>
    /\ UNCHANGED deleting

\* ------------------------------------------------------------- managers
\* A handler's run: the calls it made, in order, and how it ended.
Run(steps, outcome) == [steps |-> steps, outcome |-> outcome]

\* A get_loadbalancer_agent that returns whatever the Registry returned
GetAgentRaises_Never(hosting) == FALSE

\* AgentDriverBase.get_loadbalancer_agent on a load balancer hosted by
\* `hosting`: raises NoActiveLbaasAgent when there is no hosting agent.
GetAgentRaises(hosting) == hosting = NoAgent

GetAgent(hosting) == Step("get_loadbalancer_agent", "", Host(hosting), "")

\* A create that casts to whatever the scheduler returned
LoadBalancerManager_create_CastFirst(agent) ==
    LET steps == << Step("base", "create", NoHost, ""),
                    Step("schedule", "", Host(agent), DeviceDriver),
                    Step("cast", Verb("create", "loadbalancer"),
                         Host(agent), DeviceDriver) >>
    IN Run(steps, IF agent = NoAgent THEN "NoEligibleLbaasAgent" ELSE "ok")

\* A create whose cast does not carry the device driver's name
LoadBalancerManager_create_NoDriverName(agent) ==
    LET head == << Step("base", "create", NoHost, ""),
                   Step("schedule", "", Host(agent), DeviceDriver) >>
    IN IF agent = NoAgent
       THEN Run(head, "NoEligibleLbaasAgent")
       ELSE Run(head \o << Step("cast", Verb("create", "loadbalancer"),
                                Host(agent), "") >>, "ok")

\* LoadBalancerManager.create; agent is what the scheduler returned.
LoadBalancerManager_create(agent) ==
    LET head == << Step("base", "create", NoHost, ""),
                   Step("schedule", "", Host(agent), DeviceDriver) >>
    IN IF agent = NoAgent
       THEN Run(head, "NoEligibleLbaasAgent")
       ELSE Run(head \o << Step("cast", Verb("create", "loadbalancer"),
                                Host(agent), DeviceDriver) >>, "ok")

\* LoadBalancerManager.update
LoadBalancerManager_update(hosting) ==
    LET head == << Step("base", "update", NoHost, ""), GetAgent(hosting) >>
    IN IF GetAgentRaises(hosting)
       THEN Run(head, "NoActiveLbaasAgent")
       ELSE Run(head \o << Step("cast", Verb("update", "loadbalancer"),
                                Host(hosting), "") >>, "ok")

\* LoadBalancerManager.delete
LoadBalancerManager_delete(hosting) ==
    LET head == << Step("base", "delete", NoHost, ""), GetAgent(hosting) >>
    IN IF GetAgentRaises(hosting)
       THEN Run(head, "NoActiveLbaasAgent")
       ELSE Run(head \o << Step("db", DbDelete("loadbalancer"), NoHost, "") >>
                     \o (IF hosting # NoAgent
                         THEN << Step("cast", Verb("delete", "loadbalancer"),
                                      Host(hosting), "") >>
                         ELSE << >>), "ok")

\* The base-class method each create handler calls first: PoolManager.create
\* calls super().delete, the other three call super().create.
BaseOfCreate(kind) == IF kind = "pool" THEN "delete" ELSE "create"

\* A create that casts the update verb
SubManager_create_UpdateVerb(kind, hosting) ==
    LET head == << Step("base", "create", NoHost, ""),
                   Step("get_loadbalancer_agent", "", Host(hosting), "") >>
    IN IF hosting = NoAgent
       THEN Run(head, "NoActiveLbaasAgent")
       ELSE Run(head \o << Step("cast", Verb("update", kind), Host(hosting), "") >>,
                "ok")

\* ListenerManager / PoolManager / MemberManager / HealthMonitorManager
\* .create, .update and .delete on a resource whose load balancer is hosted
\* by `hosting`.
SubManager_create(kind, hosting) ==
    LET head == << Step("base", BaseOfCreate(kind), NoHost, ""), GetAgent(hosting) >>
    IN IF GetAgentRaises(hosting)
       THEN Run(head, "NoActiveLbaasAgent")
       ELSE Run(head \o << Step("cast", Verb("create", kind), Host(hosting), "") >>,
                "ok")

SubManager_update(kind, hosting) ==
    LET head == << Step("base", "update", NoHost, ""), GetAgent(hosting) >>
    IN IF GetAgentRaises(hosting)
       THEN Run(head, "NoActiveLbaasAgent")
       ELSE Run(head \o << Step("cast", Verb("update", kind), Host(hosting), "") >>,
                "ok")

\* A delete that notifies the agent before it deletes the record
SubManager_delete_NotifyFirst(kind, hosting) ==
    LET head == << Step("base", "delete", NoHost, ""),
                   Step("get_loadbalancer_agent", "", Host(hosting), "") >>
    IN IF hosting = NoAgent
       THEN Run(head, "NoActiveLbaasAgent")
       ELSE Run(head \o << Step("cast", Verb("delete", kind), Host(hosting), ""),
                           Step("db", DbDelete(kind), NoHost, ""),
                           Step("db", "update_loadbalancer_provisioning_status",
                                NoHost, "") >>,
                "ok")

SubManager_delete(kind, hosting) ==
    LET head == << Step("base", "delete", NoHost, ""), GetAgent(hosting) >>
    IN IF GetAgentRaises(hosting)
       THEN Run(head, "NoActiveLbaasAgent")
       ELSE Run(head \o << Step("db", DbDelete(kind), NoHost, ""),
                           Step("db", "update_loadbalancer_provisioning_status",
                                NoHost, ""),
                           Step("cast", Verb("delete", kind), Host(hosting), "") >>,
                "ok")

SubManager(op, kind, hosting) ==
    CASE op = "create" -> SubManager_create(kind, hosting)
      [] op = "update" -> SubManager_update(kind, hosting)
      [] op = "delete" -> SubManager_delete(kind, hosting)

Called(steps, call, verb) ==
    \E i \in 1..Len(steps) : steps[i].call = call /\ steps[i].verb = verb

Completed(kind, op, w, run) ==
    [kind |-> kind, op |-> op, lb |-> w, steps |-> run.steps, outcome |-> run.outcome]

\* The plugin has stored a new load balancer and calls the driver.
LoadBalancerCreate(w, agent, observed) ==
    /\ last = Nil
    /\ drivers > 0
    /\ w \notin loadbalancers
    /\ agent \in ScheduleChoices
    /\ loadbalancers' = loadbalancers \cup {w}
    /\ binding' = [binding EXCEPT ![w] = agent]
    /\ last' = Observe(observed, Completed("loadbalancer", "create", w,
                                           LoadBalancerManager_create(agent)))
    /\ UNCHANGED <<agent_state, setup, loops_running, active_agents, tick,
                   history>>
    /\ UNCHANGED deleting

LoadBalancerUpdate(w) ==
    /\ last = Nil
    /\ drivers > 0
    /\ w \in loadbalancers
    /\ last' = Completed("loadbalancer", "update", w,
                         LoadBalancerManager_update(Hosting(w)))
    /\ UNCHANGED <<registry, setup, loops_running, active_agents, tick,
                   history>>
    /\ UNCHANGED deleting

LoadBalancerDelete(w, observed) ==
    /\ last = Nil
    /\ drivers > 0
    /\ w \in loadbalancers
    /\ LET run     == LoadBalancerManager_delete(Hosting(w))
           deleted == Called(run.steps, "db", DbDelete("loadbalancer"))
       IN /\ last' = Observe(observed, Completed("loadbalancer", "delete", w, run))
          /\ loadbalancers' = IF deleted THEN loadbalancers \ {w} ELSE loadbalancers
          /\ binding' = IF deleted THEN [binding EXCEPT ![w] = NoAgent] ELSE binding
          /\ declined' = IF deleted THEN declined \ {w} ELSE declined
    /\ UNCHANGED <<agent_state, setup, loops_running, active_agents, tick,
                   resched_count, repolled>>
    /\ UNCHANGED deleting

\* create, update or delete of a listener, pool, member or health monitor
\* of load balancer w (the resource's parent chain ends in w).
SubResourceCall(op, kind, w) ==
    /\ last = Nil
    /\ drivers > 0
    /\ w \in loadbalancers
    /\ last' = Completed(kind, op, w, SubManager(op, kind, Hosting(w)))
    /\ UNCHANGED <<registry, setup, loops_running, active_agents, tick,
                   history>>
    /\ UNCHANGED deleting

\* The completed call returns to (or raises into) its caller.
Return ==
    /\ last # Nil
    /\ last' = Nil
    /\ UNCHANGED <<registry, setup, loops_running, active_agents, tick,
                   history>>
    /\ UNCHANGED deleting

\* LoadBalancerManager.delete step by step: the handler's greenthread
\* blocks in get_loadbalancer_agent (a read of the Registry), in
\* plugin.db.delete_loadbalancer and in the cast, and the monitoring tick
\* runs in between.  `agent` is what the handler resolved; `owner` records
\* the agent the Registry had the load balancer bound to when the record
\* was deleted.
DeleteResolve(w) ==
    /\ last = Nil
    /\ deleting = NoDelete
    /\ drivers > 0
    /\ w \in loadbalancers
    /\ deleting' = IF GetAgentRaises(Hosting(w))
                   THEN NoDelete
                   ELSE [NoDelete EXCEPT !.pc = "resolved", !.lb = w,
                                         !.agent = Hosting(w)]
    /\ UNCHANGED <<registry, setup, loops_running, active_agents, tick,
                   history, last>>

DeleteRecord ==
    /\ deleting.pc = "resolved"
    /\ deleting' = [deleting EXCEPT !.pc = "deleted", !.owner = Hosting(deleting.lb)]
    /\ loadbalancers' = loadbalancers \ {deleting.lb}
    /\ binding' = [binding EXCEPT ![deleting.lb] = NoAgent]
    /\ declined' = declined \ {deleting.lb}
    /\ UNCHANGED <<agent_state, setup, loops_running, active_agents, tick,
                   resched_count, repolled, last>>

\* agent_rpc.delete_loadbalancer(context, loadbalancer, agent['host'])
DeleteCast ==
    /\ deleting.pc = "deleted"
    /\ deleting' = [deleting EXCEPT !.pc = "cast"]
    /\ UNCHANGED <<registry, setup, loops_running, active_agents, tick,
                   history, last>>

DeleteReturn ==
    /\ deleting.pc = "cast"
    /\ deleting' = NoDelete
    /\ UNCHANGED <<registry, setup, loops_running, active_agents, tick,
                   history, last>>

\* ----------------------------------------------------------------- Next
Environment ==
    \/ \E a \in AgentIds : AgentRegisters(a)
    \/ \E a \in AgentIds : AgentGoesDown(a)
    \/ \E a \in AgentIds : AgentComesBack(a)

Monitoring ==
    \/ \E raises \in BOOLEAN, fail \in ScanFails, x \in AgentIds \cup {NoAgent} :
          TickStart(raises, fail, x)
    \/ \E w \in LbIds, new_agent \in AgentIds \cup {NoAgent}, fail \in 0..3 :
          RescheduleStep(w, new_agent, fail)
    \/ \E fail \in ScanFails, x \in AgentIds \cup {NoAgent} : RescheduleDone(fail, x)
    \/ TickRaises

\* The driver on its plugin: set-up, the load balancer life cycle and the
\* agent monitoring, with the agents coming and going.
Next ==
    \/ Environment
    \/ \E dd \in DeviceDrivers : DriverInit(dd, FALSE)
    \/ Monitoring
    \/ \E w \in LbIds, agent \in AgentIds \cup {NoAgent} :
          LoadBalancerCreate(w, agent, FALSE)
    \/ \E w \in LbIds : LoadBalancerDelete(w, FALSE)

Spec == Init /\ [][Next]_vars

\* The API handlers of the five managers.  A handler of a listener, pool,
\* member or health monitor, and LoadBalancerManager.update, read the
\* Registry and write nothing but what they send: they are checked on the
\* driver with the monitoring loop at rest.
ManagerNext ==
    \/ Environment
    \/ \E dd \in DeviceDrivers : DriverInit(dd, TRUE)
    \/ \E w \in LbIds, agent \in AgentIds \cup {NoAgent} :
          LoadBalancerCreate(w, agent, TRUE)
    \/ \E w \in LbIds : LoadBalancerUpdate(w)
    \/ \E w \in LbIds : LoadBalancerDelete(w, TRUE)
    \/ \E op \in Ops, kind \in SubKinds, w \in LbIds : SubResourceCall(op, kind, w)
    \/ Return

ManagerSpec == Init /\ [][ManagerNext]_vars

\* The set-up of the drivers on a plugin whose monitoring loop runs, with
\* no load balancers.
SetupNext ==
    \/ Environment
    \/ \E dd \in DeviceDrivers : DriverInit(dd, TRUE)
    \/ \E raises \in BOOLEAN, fail \in ScanFails, x \in AgentIds \cup {NoAgent} :
          TickStart(raises, fail, x)
    \/ \E fail \in ScanFails, x \in AgentIds \cup {NoAgent} : RescheduleDone(fail, x)
    \/ TickRaises
    \/ Return

SetupSpec == Init /\ [][SetupNext]_vars

\* A LoadBalancerManager.delete running against the monitoring tick, with
\* nothing raising in the tick.
RaceNext ==
    \/ Environment
    \/ DriverInit(DeviceDriver, FALSE)
    \/ TickStart(FALSE, "none", NoAgent)
    \/ \E w \in LbIds, new_agent \in AgentIds \cup {NoAgent} :
          RescheduleStep(w, new_agent, 0)
    \/ RescheduleDone("none", NoAgent)
    \/ \E w \in LbIds, agent \in AgentIds \cup {NoAgent} :
          LoadBalancerCreate(w, agent, FALSE)
    \/ \E w \in LbIds : DeleteResolve(w)
    \/ DeleteRecord
    \/ DeleteCast
    \/ DeleteReturn

RaceSpec == Init /\ [][RaceNext]_vars

\* The steps of a tick in which nothing raises
Polling ==
    \/ TickStart(FALSE, "none", NoAgent)
    \/ \E w \in LbIds, new_agent \in AgentIds \cup {NoAgent} :
          RescheduleStep(w, new_agent, 0)
    \/ RescheduleDone("none", NoAgent)

\* A looping call that runs calls _check_agents_states every interval; a
\* tick in which nothing raises goes on to its end, and an exception that
\* was raised reaches the looping call.
FairSpec == Spec /\ WF_vars(Polling) /\ WF_vars(TickRaises)

\* =============================================================== claims
\* A step of the loop of _check_agents_states over the roster
ScanStep ==
    \/ \E fail \in ScanFails, x \in AgentIds \cup {NoAgent} : TickStart(FALSE, fail, x)
    \/ \E fail \in ScanFails, x \in AgentIds \cup {NoAgent} : RescheduleDone(fail, x)

\* The agents the step reaches, when is_eligible_agent does not raise
Reached ==
    LET S == IF pc = "idle" THEN Roster ELSE todo
    IN IF pc' = "resched" THEN S \ todo'
       ELSE IF pc' = "idle" THEN S
       ELSE IF failed_agent' # NoAgent THEN {a \in S : a <= failed_agent'}
       ELSE {}

\* C1: a poll that computes inactive an agent of active_agents removes it
\* and calls _reschedule_instances for it once; a poll that computes
\* inactive an agent that is not in active_agents neither removes anything
\* nor calls _reschedule_instances for it.  So between two polls that see
\* the agent active, _reschedule_instances is called for it at most once,
\* however many polls see it inactive.
C1_Step ==
    ScanStep =>
        \A a \in Reached :
            ~IsEligibleAgent(a) =>
                IF a \in active_agents
                THEN /\ a \notin active_agents'
                     /\ failed_agent' = a
                     /\ resched_count'[a] = resched_count[a] + 1
                ELSE /\ a \notin active_agents'
                     /\ failed_agent' # a
                     /\ resched_count'[a] = resched_count[a]

C1_Count ==
    \A a \in AgentIds :
        /\ resched_count[a] <= 1
        /\ a \in active_agents => resched_count[a] = 0

C1_RescheduledOncePerTransition == [][C1_Step]_vars /\ []C1_Count

\* C1 witness: agent 1 was removed and rescheduled by an earlier poll, is
\* still inactive, and a later poll has gone over it again.
C1_Witness ==
    /\ resched_count[1] = 1
    /\ 1 \in repolled
    /\ agent_state[1] = "down"

\* The latest iteration of _reschedule_instances ran to its end
IterationCompleted ==
    /\ rlog # << >>
    /\ rlog[1].call = "reschedule"
    /\ \A i \in 1..Len(rlog) : rlog[i].call # "raise"

\* C2: in an iteration of _reschedule_instances in which reschedule returns
\* a new agent, instance_added for the load balancer is cast to the new
\* agent's host, then instance_removed for it to the failed agent's host,
\* each once and nothing else; instance_removed is never cast without the
\* instance_added before it; and the load balancer is not taken up again
\* in the batch.  For agent 1 down, agent 2 active and load balancer 1 on
\* agent 1 the casts are instance_added(1) to host 2, instance_removed(1)
\* to host 1.
C2_AddedBeforeRemoved ==
    /\ (IterationCompleted /\ rlog[1].host # NoHost) =>
           /\ rlog = << rlog[1],
                        Entry("instance_added", rlog[1].lb, rlog[1].host),
                        Entry("instance_removed", rlog[1].lb, Host(failed_agent)) >>
           /\ rlog[1].lb \notin queue
    /\ \A i \in 1..Len(rlog) :
           rlog[i].call = "instance_removed" =>
               /\ i > 1
               /\ rlog[i - 1].call = "instance_added"
               /\ rlog[i - 1].lb = rlog[i].lb
               /\ \A j \in 1..Len(rlog) : rlog[j].call = rlog[i].call => j = i
    /\ (IterationCompleted /\ failed_agent = 1 /\ rlog[1] = Entry("reschedule", 1, Host(2))) =>
           SubSeq(rlog, 2, Len(rlog)) = << Entry("instance_added", 1, Host(2)),
                                           Entry("instance_removed", 1, Host(1)) >>

\* C2 witness: agent 1 is down, agent 2 is up, and load balancer 1 has just
\* been moved from agent 1 to agent 2
C2_Witness ==
    /\ agent_state[1] = "down" /\ agent_state[2] = "up"
    /\ failed_agent = 1
    /\ rlog = << Entry("reschedule", 1, Host(2)),
                 Entry("instance_added", 1, Host(2)),
                 Entry("instance_removed", 1, Host(1)) >>

\* C3 as claimed: when an iteration of _reschedule_instances raises, the
\* batch goes on, so the exception never leaves the tick with load
\* balancers of the batch unprocessed.
C3_FailureIsolated ==
    (pc = "failed" /\ rlog # << >> /\ rlog[Len(rlog)].call = "raise") => queue = {}

\* The steps of the completed call that are casts to an agent
Casts(steps) == {i \in 1..Len(steps) : steps[i].call = "cast"}

\* The completed call is a delete of a resource of a load balancer that no
\* agent hosts
DeleteWithoutAgent ==
    /\ last.op = "delete"
    /\ last.kind \in Kinds
    /\ \E i \in 1..Len(last.steps) : last.steps[i] = GetAgent(NoAgent)

\* C4 as claimed: a delete of a resource of any of the five kinds whose
\* load balancer has no hosting agent still deletes the record, still
\* updates the load balancer's provisioning status (the four sub-resource
\* kinds), and casts nothing.
C4_DeleteProceedsWithoutAgent ==
    DeleteWithoutAgent =>
        /\ Called(last.steps, "db", DbDelete(last.kind))
        /\ last.kind \in SubKinds =>
               Called(last.steps, "db", "update_loadbalancer_provisioning_status")
        /\ last.kind = "loadbalancer" => last.lb \notin loadbalancers
        /\ Casts(last.steps) = {}

\* C5 as claimed: a tick that raises does not end the looping call, so
\* every looping call that was started is still running.
C5_LoopSurvivesFailedTick == loops_running = loops_started

\* C6 as claimed: however many drivers are initialised on the plugin, at
\* most one looping call has been started and at most one consumer created.
C6_SetUpOnce == loops_started <= 1 /\ consumers <= 1

\* The completed call is LoadBalancerManager.create
CreatedLoadBalancer == last.kind = "loadbalancer" /\ last.op = "create"

\* ... in which schedule returned no agent
ScheduledNone ==
    /\ CreatedLoadBalancer
    /\ \E i \in 1..Len(last.steps) :
           last.steps[i].call = "schedule" /\ last.steps[i].host = NoHost

\* C7: when schedule returns no agent, LoadBalancerManager.create raises
\* NoEligibleLbaasAgent, has cast nothing to any host, and the load
\* balancer has no hosting agent afterwards.
C7_NoAgentNoCast ==
    ScheduledNone =>
        /\ last.outcome = "NoEligibleLbaasAgent"
        /\ Casts(last.steps) = {}
        /\ Hosting(last.lb) = NoAgent

\* C7 witness: load balancer 1 was created with no agent eligible
C7_Witness ==
    /\ ScheduledNone
    /\ last.lb = 1
    /\ Eligible = {}
    /\ last.outcome = "NoEligibleLbaasAgent"

\* C8: when LoadBalancerManager.create returns without error, the load
\* balancer has a hosting agent, and exactly one cast was made:
\* create_loadbalancer, to that agent's host, with the device driver's
\* name.
C8_CreateCastsToOwner ==
    (CreatedLoadBalancer /\ last.outcome = "ok") =>
        /\ Hosting(last.lb) # NoAgent
        /\ Cardinality(Casts(last.steps)) = 1
        /\ \A i \in Casts(last.steps) :
               last.steps[i] = Step("cast", "create_loadbalancer",
                                    Host(Hosting(last.lb)), DeviceDriver)

\* C8 witness: load balancer 2 was created and scheduled to agent 1 while
\* agent 2, too, was eligible
C8_Witness ==
    /\ CreatedLoadBalancer
    /\ last.outcome = "ok"
    /\ last.lb = 2
    /\ Hosting(2) = 1
    /\ Eligible = {1, 2}

\* Load balancer w is left on an inactive agent while another agent is
\* eligible and the monitoring loop runs
Movable(w) ==
    /\ w \in loadbalancers
    /\ binding[w] # NoAgent
    /\ agent_state[binding[w]] = "down"
    /\ Eligible \ {binding[w]} # {}
    /\ loops_running > 0

\* C9 as claimed: a load balancer for which reschedule found no agent is
\* taken up again by a later tick: while its agent stays inactive, another
\* agent is eligible and the loop runs, a tick eventually calls reschedule
\* for it (it is moved, or put in a batch again).
C9_PickedUpByLaterPoll ==
    \A w \in LbIds :
        (w \in declined /\ pc = "idle" /\ Movable(w))
            ~> (w \notin declined \/ ~Movable(w) \/ w \in queue)

\* C9, amended: a load balancer for which reschedule found no agent stays
\* with the failed agent, which is out of active_agents, and no tick takes
\* it up again (it is in no batch and its binding does not change, short of
\* its deletion) until a tick has seen the failed agent active again.
C9_Left ==
    \A w \in declined :
        /\ Hosting(w) # NoAgent
        /\ Hosting(w) \notin active_agents
        /\ w \notin queue
        /\ resched_count[Hosting(w)] <= 1

C9_LeftStep ==
    \A w \in declined :
        \/ binding'[w] = binding[w] /\ w \in loadbalancers'
        \/ w \notin loadbalancers'

C9_NotPickedUpWhileInactive == []C9_Left /\ [][C9_LeftStep]_vars

\* C9 witness: load balancer 1 was left on agent 1, agent 2 has become
\* eligible, and a later poll has gone over agent 1 without taking it up
C9_Witness ==
    /\ 1 \in declined
    /\ Hosting(1) = 1
    /\ Movable(1)
    /\ 2 \in active_agents
    /\ 1 \in repolled
    /\ pc = "idle"

\* C10: in an iteration of _reschedule_instances in which reschedule
\* returns no agent, nothing is cast and nothing raises, and the step
\* leaves the bindings and the load balancer records as they were.
C10_Quiet ==
    (rlog # << >> /\ rlog[1].call = "reschedule" /\ rlog[1].host = NoHost) =>
        Len(rlog) = 1

C10_QuietStep ==
    (/\ pc = "resched"
     /\ queue' # queue
     /\ rlog' # << >>
     /\ rlog'[1].call = "reschedule"
     /\ rlog'[1].host = NoHost) =>
        /\ binding' = binding
        /\ loadbalancers' = loadbalancers
        /\ Len(rlog') = 1

C10_NoneLeavesAsIs == []C10_Quiet /\ [][C10_QuietStep]_vars

\* C10 witness: reschedule returned no agent for load balancer 1 of agent
\* 1's batch although agent 2 was eligible (a load balancer pinned to its
\* host), and it is still with agent 1
C10_Witness ==
    /\ rlog = << Entry("reschedule", 1, NoHost) >>
    /\ failed_agent = 1
    /\ Hosting(1) = 1
    /\ 2 \in Eligible

\* C11 as claimed: active_agents is written by the scan of a poll tick
\* only: a step of anything else (a driver initialisation, a manager call,
\* an iteration of _reschedule_instances) leaves its contents as they were.
C11_WrittenStep == active_agents' # active_agents => ScanStep

C11_OnlyPollsWrite == [][C11_WrittenStep]_vars

\* The agents a scan step computes active
ComputedActive ==
    {a \in (IF pc = "idle" THEN Roster ELSE todo) : IsEligibleAgent(a)}

\* C12 as claimed: when a poll tick completes, active_agents is the set of
\* the agents that the tick computed active.
C12_TickDone ==
    (ScanStep /\ pc' = "idle") =>
        active_agents' = seen_active \cup ComputedActive

C12_SetIsComputedActive == [][C12_TickDone]_vars

\* C13: a poll that computes active an agent that is not in active_agents
\* adds it and does nothing else on its account: it does not call
\* _reschedule_instances for it, casts nothing, and the load balancers
\* bound to it are the same after the step as before.
C13_Step ==
    ScanStep =>
        \A a \in Reached :
            (IsEligibleAgent(a) /\ a \notin active_agents) =>
                /\ a \in active_agents'
                /\ failed_agent' # a
                /\ resched_count'[a] = 0
                /\ rlog' = << >>
                /\ {w \in loadbalancers' : binding'[w] = a} = LoadbalancersOn(a)

C13_AddedQuietly == [][C13_Step]_vars

\* C13 witness: agent 1, which hosts load balancer 1, was added by a poll;
\* agent 2 is the one that was rescheduled; the tick is over
C13_Witness ==
    /\ 1 \in active_agents
    /\ LoadbalancersOn(1) = {1}
    /\ agent_state[2] = "down" /\ 2 \notin active_agents /\ resched_count[2] = 1
    /\ pc = "idle"
    /\ rlog = << >>

\* C14: with lbaas_agent_monitoring_interval = 0 no looping call is ever
\* started: no tick runs, active_agents stays empty, and
\* _reschedule_instances is never called and nothing is cast by it,
\* whatever the agents do.
C14_NoMonitoring ==
    monitoring_interval = 0 =>
        /\ loops_started = 0 /\ loops_running = 0
        /\ "agent_monitoring" \notin db_attrs
        /\ active_agents = {}
        /\ pc = "idle" /\ polled = FALSE
        /\ rlog = << >> /\ queue = {}
        /\ \A a \in AgentIds : resched_count[a] = 0

\* C14 witness: interval 0, both drivers initialised, and agent 1 is down
\* with a load balancer on it while agent 2 is up
C14_Witness ==
    /\ monitoring_interval = 0
    /\ drivers = MaxInits
    /\ agent_state[1] = "down" /\ agent_state[2] = "up"
    /\ LoadbalancersOn(1) # {}

\* The agent the completed call resolved: what get_loadbalancer_agent read
\* from the Registry or, in LoadBalancerManager.create, what schedule
\* returned
Resolved(steps) ==
    {steps[i].host : i \in {j \in 1..Len(steps) :
                                steps[j].call \in {"get_loadbalancer_agent", "schedule"}}}

\* C15: create and update of a listener, pool, member or health monitor
\* whose load balancer has no hosting agent raise NoActiveLbaasAgent and
\* cast nothing.
C15_NoAgentNoNotification ==
    (/\ last.op \in {"create", "update"}
     /\ last.kind \in SubKinds
     /\ Resolved(last.steps) = {NoHost}) =>
        /\ last.outcome = "NoActiveLbaasAgent"
        /\ Casts(last.steps) = {}

\* C15 witness: a pool was created under load balancer 1, which no agent
\* hosts although agent 1 is up
C15_Witness ==
    /\ last.kind = "pool" /\ last.op = "create" /\ last.lb = 1
    /\ Hosting(1) = NoAgent
    /\ agent_state[1] = "up"
    /\ last.outcome = "NoActiveLbaasAgent"

\* Position of the one step of the completed call that calls `call` with
\* `verb`; 0 when there is none or more than one
At(steps, call, verb) ==
    LET I == {i \in 1..Len(steps) : steps[i].call = call /\ steps[i].verb = verb}
    IN IF Cardinality(I) = 1 THEN CHOOSE i \in I : TRUE ELSE 0

\* C16: a delete that completes resolves the hosting agent, then deletes
\* the record, then (listener, pool, member, health monitor) updates the
\* load balancer's provisioning status, then casts delete_<kind>, once, to
\* the resolved agent's host.
C16_DeleteOrder ==
    (last.op = "delete" /\ last.kind \in Kinds /\ last.outcome = "ok") =>
        LET resolve == At(last.steps, "get_loadbalancer_agent", "")
            record  == At(last.steps, "db", DbDelete(last.kind))
            status  == At(last.steps, "db", "update_loadbalancer_provisioning_status")
            notify  == At(last.steps, "cast", Verb("delete", last.kind))
        IN /\ 0 < resolve /\ resolve < record /\ record < notify
           /\ last.kind \in SubKinds => record < status /\ status < notify
           /\ Casts(last.steps) = {notify}
           /\ last.steps[notify].host = last.steps[resolve].host
           /\ last.steps[notify].host # NoHost
           /\ last.kind = "loadbalancer" => last.lb \notin loadbalancers

\* C16 witness: a pool under load balancer 1, hosted by agent 2, was deleted
C16_Witness ==
    /\ last.kind = "pool" /\ last.op = "delete" /\ last.outcome = "ok"
    /\ last.lb = 1 /\ Hosting(1) = 2

\* C17: a create, update or delete of any of the five kinds that completes
\* has cast exactly once: the verb is <op>_<kind> of that call, the host is
\* the host of the agent the call resolved.
C17_OneNotification ==
    (last.kind \in Kinds /\ last.op \in Ops /\ last.outcome = "ok") =>
        /\ Cardinality(Casts(last.steps)) = 1
        /\ \A i \in Casts(last.steps) :
               /\ last.steps[i].verb = Verb(last.op, last.kind)
               /\ Resolved(last.steps) = {last.steps[i].host}
               /\ last.steps[i].host \in {Host(a) : a \in AgentIds}

\* C17 witness: a health monitor under load balancer 2, hosted by agent 1,
\* was updated
C17_Witness ==
    /\ last.kind = "healthmonitor" /\ last.op = "update" /\ last.outcome = "ok"
    /\ last.lb = 2 /\ Hosting(2) = 1

\* C19 as claimed: the create of a listener, pool, member or health
\* monitor calls the base class's create first, once, and never the base
\* class's delete; the four make the same calls in the same order.
C19_OneCreateTemplate ==
    (last.op = "create" /\ last.kind \in SubKinds) =>
        /\ At(last.steps, "base", "create") = 1
        /\ ~Called(last.steps, "base", "delete")
        /\ [i \in 1..Len(last.steps) |-> last.steps[i].call]
               \in {<<"base", "get_loadbalancer_agent">>,
                    <<"base", "get_loadbalancer_agent", "cast">>}

\* C18: an __init__ of a driver class without device_driver raises
\* DriverNotSpecified and has changed nothing: no attribute set on the
\* plugin or on plugin.db (no notifier, no active_agents), no consumer, no
\* looping call, active_agents as it was, no driver instance constructed.
C18_Step ==
    (last = Nil /\ last'.outcome = "DriverNotSpecified") =>
        UNCHANGED <<registry, setup, loops_running, active_agents, tick, history>>

C18_NotSpecifiedChangesNothing == [][C18_Step]_vars

\* C18 witness: DriverNotSpecified was raised on a plugin on which a driver
\* is set up and a poll has added agent 1
C18_Witness ==
    /\ last.outcome = "DriverNotSpecified"
    /\ drivers = 1 /\ consumers = 1 /\ loops_running = 1
    /\ active_agents = {1}

\* C20 as claimed: a LoadBalancerManager.delete that runs while a tick
\* reschedules the load balancer casts delete_loadbalancer to the agent
\* that was last told it hosts the load balancer.  Where nothing raises,
\* that agent is the one the Registry has it bound to when the record is
\* deleted: create casts create_loadbalancer to the agent schedule bound it
\* to, and an iteration of _reschedule_instances casts instance_added to
\* the agent reschedule bound it to and instance_removed to the one before.
C20_Reached == deleting.pc = "cast" => deleting.agent = deleting.owner

\* ... and no instance_added is cast for a load balancer whose record is
\* deleted
C20_AddedStep ==
    \A i \in 1..Len(rlog') :
        (rlog' # rlog /\ rlog'[i].call = "instance_added") =>
            rlog'[i].lb \in loadbalancers

C20_DeleteReachesOwner == []C20_Reached /\ [][C20_AddedStep]_vars

\* C21: a poll calls _reschedule_instances for an agent only if the agent
\* is in active_agents when it is checked, and has removed it when the call
\* begins; an agent enters active_agents only by a poll that computes it
\* active.  So an agent that is inactive from the first poll on (or from
\* the first poll after active_agents was emptied) is not rescheduled
\* before a poll has seen it active.
C21_Step ==
    /\ (ScanStep /\ failed_agent' # NoAgent) =>
           /\ failed_agent' \in active_agents
           /\ failed_agent' \notin active_agents'
           /\ ~IsEligibleAgent(failed_agent')
    /\ \A a \in active_agents' \ active_agents :
           ScanStep /\ IsEligibleAgent(a)

C21_Removed == pc = "resched" => failed_agent \notin active_agents

C21_OnlyAgentsSeenActive == [][C21_Step]_vars /\ []C21_Removed

\* C21 witness: agent 1, down with a load balancer on it, has been passed
\* over by a poll without ever being rescheduled, and that poll is now
\* rescheduling agent 2
C21_Witness ==
    /\ pc = "resched" /\ failed_agent = 2
    /\ agent_state[1] = "down"
    /\ 1 \in repolled /\ resched_count[1] = 0
    /\ LoadbalancersOn(1) # {}

====
